---- MODULE Spec2Model ----
(***************************************************************************)
(* Model of the API resilience and caching core of PusangOrange.           *)
(*                                                                         *)
(* Part 1: TarkovCache (src/services/tarkovCache.ts), the in-memory TTL    *)
(* cache with request deduplication.  The cache Map is a sequence of       *)
(* entries in insertion order (a JavaScript Map iterates in insertion      *)
(* order, which Array.prototype.sort, being stable, preserves among ties). *)
(* Each provider invocation whose promise has not settled is a record in   *)
(* `fetches`; the continuation of fetchAndCache after `await promise` is   *)
(* the action FetchOk / FetchFail.  Date.now() is `now`, in milliseconds.  *)
(*                                                                         *)
(* Part 2: CircuitBreaker and RetryStrategy (src/services/tarkovTesting.ts,*)
(* the resilience section).  Each class is studied as an instance of its   *)
(* own, under its own specification (SpecBreaker, SpecRetry); the          *)
(* specifications of one part leave the variables of the others unchanged. *)
(* ResilienceManager composes the two (SpecResilience).                    *)
(*                                                                         *)
(* Part 3: the fetch operations of TarkovService (src/unnamed/part_003)    *)
(* and TarkovRepository.getAllQuests (src/services/tarkovRepository.ts),   *)
(* each a producer run by the cache's get, with PersistentStorage          *)
(* (src/services/persistentStorage.ts) behind it (SpecService).            *)
(***************************************************************************)
EXTENDS Integers, Sequences, FiniteSets, TLC

\* ---------------------------------------------------------------- bounds
NumKeys == 2
NumValues == 2
MaxTicks == 2
TickMs == 30000
MaxFetches == 2
MaxHits == 1

Keys == 1..NumKeys
Values == 1..NumValues
FetchIds == 1..MaxFetches

\* ------------------------------------------------- configuration, constants
\* the instance under study is new TarkovCache({ maxEntries: 1, ttl: 30000 })
maxEntries == 1
configTtl == 30000
\* a per-call override of the ttl (CacheConfig.ttl), and the ttl given to set
TtlChoices == {0, configTtl}
\* cleanup drops pending markers older than this many milliseconds
PendingMaxAgeMs == 30000

NoPending == [fid |-> 0, timestamp |-> 0]
NoFetch == [key |-> 0, ttl |-> 0]
NoEvicted == {}

VARIABLES
    cache,                \* Map<string, CacheEntry>: sequence in insertion order
    pendingRequests,      \* Map<string, PendingRequest>: key -> marker or NoPending
    fetches,              \* provider promises not yet settled: id -> record
    now,                  \* Date.now()
    enableDeduplication,  \* this.config.enableDeduplication
    ret                   \* what the last get, set, cleanup or completion did and returned

vars == <<cache, pendingRequests, fetches, now, enableDeduplication, ret>>

\* ------------------------------------------------------------ Map helpers
IndexOf(c, k) ==
    IF \E i \in 1..Len(c) : c[i].key = k
    THEN CHOOSE i \in 1..Len(c) : c[i].key = k
    ELSE 0

MapHas(c, k) == IndexOf(c, k) # 0

MapSet(c, k, e) ==
    IF MapHas(c, k)
    THEN [c EXCEPT ![IndexOf(c, k)] = e]
    ELSE Append(c, e)

MapDelete(c, k) == SelectSeq(c, LAMBDA e : e.key # k)

Range(s) == {s[i] : i \in 1..Len(s)}

\* --------------------------------------------------------------- isExpired
\* a variant that expires an entry at the very end of its time-to-live
isExpiredOffByOne(entry, t) == t - entry.timestamp >= entry.ttl

isExpired(entry, t) == t - entry.timestamp > entry.ttl

\* getCachedData: the index of a valid entry for k, 0 for "null"
getCachedData(c, k, t) ==
    IF MapHas(c, k) /\ ~isExpired(c[IndexOf(c, k)], t) THEN IndexOf(c, k) ELSE 0

\* getCachedData's side effect: an expired entry is deleted by the lookup
AfterLookup(c, k, t) ==
    IF MapHas(c, k) /\ isExpired(c[IndexOf(c, k)], t) THEN MapDelete(c, k) ELSE c

\* ------------------------------------------------------------------ resize
\* a variant of the comparator that orders by age alone
compareByTimestampOnly(a, b) == a.timestamp - b.timestamp

compare(a, b) ==
    IF a.hits # b.hits THEN a.hits - b.hits ELSE a.timestamp - b.timestamp

\* Array.prototype.sort is stable: an element goes before the first one it
\* compares strictly less than
RECURSIVE InsertSorted(_, _)
InsertSorted(sorted, e) ==
    IF sorted = <<>> THEN <<e>>
    ELSE IF compare(e, Head(sorted)) < 0 THEN <<e>> \o sorted
    ELSE <<Head(sorted)>> \o InsertSorted(Tail(sorted), e)

RECURSIVE SortEntries(_)
SortEntries(s) ==
    IF s = <<>> THEN <<>>
    ELSE InsertSorted(SortEntries(SubSeq(s, 1, Len(s) - 1)), s[Len(s)])

\* a variant of resize() that never deletes
ToEvictNone(c) == {}

\* the keys resize() deletes

ToEvict(c) ==
    IF Len(c) <= maxEntries THEN {}
    ELSE {SortEntries(c)[i].key : i \in 1..(Len(c) - maxEntries)}

resize(c) == SelectSeq(c, LAMBDA e : e.key \notin ToEvict(c))

Evicted(c) == {e \in Range(c) : e.key \in ToEvict(c)}

\* setCacheEntry: the map before resize()
Stored(c, k, data, ttl, t) ==
    MapSet(c, k, [key |-> k, data |-> data, timestamp |-> t, ttl |-> ttl, hits |-> 0])

setCacheEntry(c, k, data, ttl, t) == resize(Stored(c, k, data, ttl, t))

\* ------------------------------------------------------------------- state
Ret(op, k, kind, val, evicted) ==
    [op |-> op, key |-> k, kind |-> kind, val |-> val, evicted |-> evicted]

\* operations whose result is not observed leave this record
NoRet == Ret("none", 0, "none", 0, NoEvicted)

Init ==
    /\ cache = <<>>
    /\ pendingRequests = [k \in Keys |-> NoPending]
    /\ fetches = [f \in FetchIds |-> NoFetch]
    /\ now = 0
    /\ enableDeduplication \in BOOLEAN
    /\ ret = NoRet

InFlight == {f \in FetchIds : fetches[f] # NoFetch}

FreeId == CHOOSE f \in FetchIds : fetches[f] = NoFetch

\* --------------------------------------------------------- fetchAndCache
\* provider() returned a promise: it is tracked and awaited
FetchStart(c, k, ttl, kind) ==
    /\ InFlight # FetchIds
    /\ cache' = c
    /\ fetches' = [fetches EXCEPT ![FreeId] = [key |-> k, ttl |-> ttl]]
    /\ pendingRequests' =
         IF enableDeduplication
         THEN [pendingRequests EXCEPT ![k] = [fid |-> FreeId, timestamp |-> now]]
         ELSE pendingRequests
    /\ ret' = Ret("get", k, kind, 0, NoEvicted)
    /\ UNCHANGED <<now, enableDeduplication>>

\* provider() threw before returning a promise: catch and finally run at once
FetchThrow(c, k, kind) ==
    /\ cache' = c
    /\ pendingRequests' = [pendingRequests EXCEPT ![k] = NoPending]
    /\ ret' = Ret("get", k, kind, 0, NoEvicted)
    /\ UNCHANGED <<fetches, now, enableDeduplication>>

\* the promise resolved with data: setCacheEntry, then finally
FetchOk(f, data) ==
    /\ fetches[f] # NoFetch
    /\ LET k == fetches[f].key
           stored == Stored(cache, k, data, fetches[f].ttl, now)
       IN /\ cache' = resize(stored)
          /\ pendingRequests' = [pendingRequests EXCEPT ![k] = NoPending]
          /\ ret' = Ret("settle", k, "ok", data, Evicted(stored))
    /\ fetches' = [fetches EXCEPT ![f] = NoFetch]
    /\ UNCHANGED <<now, enableDeduplication>>

\* a failure handler that stores the failure as if it were a result
FetchFailCachesError(f) ==
    /\ fetches[f] # NoFetch
    /\ cache' = setCacheEntry(cache, fetches[f].key, 0, fetches[f].ttl, now)
    /\ pendingRequests' = [pendingRequests EXCEPT ![fetches[f].key] = NoPending]
    /\ ret' = Ret("settle", fetches[f].key, "err", 0, NoEvicted)
    /\ fetches' = [fetches EXCEPT ![f] = NoFetch]
    /\ UNCHANGED <<now, enableDeduplication>>

\* a failure handler that forgets the pending marker
FetchFailLeaky(f) ==
    /\ fetches[f] # NoFetch
    /\ ret' = Ret("settle", fetches[f].key, "err", 0, NoEvicted)
    /\ fetches' = [fetches EXCEPT ![f] = NoFetch]
    /\ UNCHANGED <<cache, pendingRequests, now, enableDeduplication>>

\* the promise rejected: catch, then finally
FetchFail(f) ==
    /\ fetches[f] # NoFetch
    /\ pendingRequests' = [pendingRequests EXCEPT ![fetches[f].key] = NoPending]
    /\ ret' = Ret("settle", fetches[f].key, "err", 0, NoEvicted)
    /\ fetches' = [fetches EXCEPT ![f] = NoFetch]
    /\ UNCHANGED <<cache, now, enableDeduplication>>

\* --------------------------------------------------------------------- get
\* forceRefresh: no lookup at all
GetForce(k, ttl) ==
    \/ FetchStart(cache, k, ttl, "forceFetch")
    \/ FetchThrow(cache, k, "forceThrow")

\* a valid entry: count the hit and return its data
GetHit(k) ==
    /\ getCachedData(cache, k, now) # 0
    /\ LET i == getCachedData(cache, k, now)
       IN /\ cache[i].hits < MaxHits
          /\ cache' = [cache EXCEPT ![i].hits = @ + 1]
          /\ ret' = Ret("get", k, "hit", cache[i].data, NoEvicted)
    /\ UNCHANGED <<pendingRequests, fetches, now, enableDeduplication>>

\* no valid entry, a pending request for the key: return its promise
GetJoin(k) ==
    /\ getCachedData(cache, k, now) = 0
    /\ enableDeduplication
    /\ pendingRequests[k] # NoPending
    /\ cache' = AfterLookup(cache, k, now)
    /\ ret' = Ret("get", k, "join", pendingRequests[k].fid, NoEvicted)
    /\ UNCHANGED <<pendingRequests, fetches, now, enableDeduplication>>

\* no valid entry, nothing to join: fetchAndCache
GetMiss(k, ttl) ==
    /\ getCachedData(cache, k, now) = 0
    /\ ~(enableDeduplication /\ pendingRequests[k] # NoPending)
    /\ \/ FetchStart(AfterLookup(cache, k, now), k, ttl, "fetch")
       \/ FetchThrow(AfterLookup(cache, k, now), k, "throw")

\* ----------------------------------------------------- the other operations
GetCachedOnly(k) ==
    /\ LET i == getCachedData(cache, k, now)
       IN IF i # 0
          THEN /\ cache[i].hits < MaxHits
               /\ cache' = [cache EXCEPT ![i].hits = @ + 1]
          ELSE cache' = AfterLookup(cache, k, now)
    /\ ret' = NoRet
    /\ UNCHANGED <<pendingRequests, fetches, now, enableDeduplication>>

Has(k) ==
    /\ cache' = AfterLookup(cache, k, now)
    /\ ret' = NoRet
    /\ UNCHANGED <<pendingRequests, fetches, now, enableDeduplication>>

Set(k, data, ttl) ==
    /\ cache' = setCacheEntry(cache, k, data, ttl, now)
    /\ ret' = Ret("set", k, "void", data, Evicted(Stored(cache, k, data, ttl, now)))
    /\ UNCHANGED <<pendingRequests, fetches, now, enableDeduplication>>

Delete(k) ==
    /\ cache' = MapDelete(cache, k)
    /\ pendingRequests' = [pendingRequests EXCEPT ![k] = NoPending]
    /\ ret' = NoRet
    /\ UNCHANGED <<fetches, now, enableDeduplication>>

Clear ==
    /\ cache' = <<>>
    /\ pendingRequests' = [k \in Keys |-> NoPending]
    /\ ret' = NoRet
    /\ UNCHANGED <<fetches, now, enableDeduplication>>

\* a variant that drops a pending marker already at 30 s
isStalePendingOffByOne(p, t) == t - p.timestamp >= PendingMaxAgeMs

\* cleanup(), called by hand or by the interval timer of the constructor

isStalePending(p, t) == t - p.timestamp > PendingMaxAgeMs

Cleanup ==
    /\ cache' = SelectSeq(cache, LAMBDA e : ~isExpired(e, now))
    /\ pendingRequests' =
         [k \in Keys |->
            IF pendingRequests[k] # NoPending /\ isStalePending(pendingRequests[k], now)
            THEN NoPending ELSE pendingRequests[k]]
    /\ ret' = Ret("cleanup", 0, "count", Len(cache) - Len(cache'), NoEvicted)
    /\ UNCHANGED <<fetches, now, enableDeduplication>>

\* time passes
Tick ==
    /\ now < MaxTicks * TickMs
    /\ now' = now + TickMs
    /\ ret' = NoRet
    /\ UNCHANGED <<cache, pendingRequests, fetches, enableDeduplication>>

\* ------------------------------------------- state of the other components
VARIABLES
    state,                \* CircuitBreaker.state
    failureCount,         \* CircuitBreaker.failureCount
    successCount,         \* CircuitBreaker.successCount
    lastFailureTime,      \* CircuitBreaker.lastFailureTime
    failures,             \* CircuitBreaker.failures: timestamps, oldest first
    inFlightOps,          \* wrapped operations execute() is awaiting
    bret,                 \* what the last breaker step was, and the state it found
    halfOpenStreak,       \* history: successes in a row observed while HALF_OPEN
    failuresSinceClosed   \* history: failures recorded since the breaker last became CLOSED

breakerVars ==
    <<state, failureCount, successCount, lastFailureTime, failures, inFlightOps,
      bret, halfOpenStreak, failuresSinceClosed>>

BRet(op, from) == [op |-> op, from |-> from]

InitBreaker ==
    /\ state = "CLOSED"
    /\ failureCount = 0
    /\ successCount = 0
    /\ lastFailureTime = 0
    /\ failures = <<>>
    /\ inFlightOps = 0
    /\ bret = BRet("none", "CLOSED")
    /\ halfOpenStreak = 0
    /\ failuresSinceClosed = 0

VARIABLES
    retryConfig,          \* the RetryConfig of the strategy whose execute() is running
    retryPc,              \* where execute() is: idle, calling, waiting, returned, thrown
    attempt, lastError,   \* the locals of execute()
    delayMs,              \* the delay execute() is waiting for, or last waited for
    retryResult,          \* what execute() returned or threw
    invocations           \* history: how often this execute() has called fn

retryVars == <<retryConfig, retryPc, attempt, lastError, delayMs, retryResult, invocations>>

\* let lastError: Error, before any assignment
Undefined == [type |-> "undefined", statusCode |-> 0, id |-> 0]

NoResult == [kind |-> "none"]

InitRetry ==
    /\ retryConfig = [maxAttempts |-> 3, jitter |-> TRUE]
    /\ retryPc = "idle"
    /\ attempt = 0
    /\ lastError = Undefined
    /\ delayMs = 0
    /\ retryResult = NoResult
    /\ invocations = 0

VARIABLES
    metrics,              \* ResilienceManager.metrics
    managerPc,            \* where ResilienceManager.execute is: idle, awaiting, rejected
    startTime,            \* its local startTime
    health                \* the healthStatus that getMetrics returned last

managerVars == <<metrics, managerPc, startTime, health>>

\* averageResponseTime is kept exactly, as num / 10^exp
ZeroAverage == [num |-> 0, exp |-> 0]

InitManager ==
    /\ metrics = [totalRequests |-> 0, successfulRequests |-> 0, failedRequests |-> 0,
                  averageResponseTime |-> ZeroAverage, lastUpdateTime |-> 0]
    /\ managerPc = "idle"
    /\ startTime = 0
    /\ health = "none"

VARIABLES
    storage,              \* AsyncStorage: storage key -> stored data, or NoSnapshot
    serviceConfig,        \* the ServiceConfig of the service whose fetch is running
    servicePc,            \* where the fetch is: idle, requesting, waiting, storing, reading
    serviceOp,            \* the fetch operation that is running, or that ran last
    serviceAttempt,       \* executeQuery: attempt
    serviceLastError,     \* executeQuery: lastError
    serviceDelayMs,       \* the delay executeQuery is waiting for, or last waited for
    serviceData,          \* the data of the response, once there is one
    serviceFid,           \* the provider promise of the cache that this fetch is
    serviceResult,        \* what the fetch resolved or rejected with
    serviceRequests       \* history: network requests made by this fetch

serviceVars ==
    <<storage, serviceConfig, servicePc, serviceOp, serviceAttempt, serviceLastError,
      serviceDelayMs, serviceData, serviceFid, serviceResult, serviceRequests>>

\* AsyncStorage.getItem found nothing
NoSnapshot == 0

\* let lastError: Error | null = null
NoError == [type |-> "null", statusCode |-> 0, id |-> 0]

InitService ==
    /\ storage = [k \in Keys |-> NoSnapshot]
    /\ serviceConfig = [retryAttempts |-> 3]
    /\ servicePc = "idle"
    /\ serviceOp = "none"
    /\ serviceAttempt = 0
    /\ serviceLastError = NoError
    /\ serviceDelayMs = 0
    /\ serviceData = 0
    /\ serviceFid = 0
    /\ serviceResult = NoResult
    /\ serviceRequests = 0

VARIABLES
    recovering            \* from here on every wrapped operation of the breaker succeeds

recoveryVars == <<recovering>>

InitRecovery == recovering = FALSE

VARIABLES
    cleanupTimer,         \* TarkovCache.cleanupTimer is set
    dropped               \* history: fetches that were in flight when delete, clear or
                          \* destroy removed their key, with no get or set of it since

lifecycleVars == <<cleanupTimer, dropped>>

InitLifecycle ==
    /\ cleanupTimer = TRUE
    /\ dropped = {}

VARIABLES
    stats                 \* TarkovCache.stats: hits, misses, deduplicatedRequests

statsVars == <<stats>>

InitStats == stats = [hits |-> 0, misses |-> 0, deduplicatedRequests |-> 0]

VARIABLES
    hashed                \* the calls of hashPlayerSettings so far: [settings, key]

hashVars == <<hashed>>

InitHash == hashed = <<>>

\* what a step of the cache leaves alone
CacheFrame ==
    UNCHANGED <<breakerVars, retryVars, managerVars, serviceVars,
                hashVars, lifecycleVars, statsVars, recoveryVars>>

InitAll ==
    /\ Init
    /\ InitBreaker
    /\ InitRetry
    /\ InitManager
    /\ InitService
    /\ InitHash
    /\ InitLifecycle
    /\ InitStats
    /\ InitRecovery

allVars ==
    <<vars, breakerVars, retryVars, managerVars, serviceVars,
      hashVars, lifecycleVars, statsVars, recoveryVars>>

Next ==
    \/ \E k \in Keys, ttl \in TtlChoices : GetForce(k, ttl) /\ CacheFrame
    \/ \E k \in Keys : GetHit(k) /\ CacheFrame
    \/ \E k \in Keys : GetJoin(k) /\ CacheFrame
    \/ \E k \in Keys, ttl \in TtlChoices : GetMiss(k, ttl) /\ CacheFrame
    \/ \E f \in FetchIds, data \in Values : FetchOk(f, data) /\ CacheFrame
    \/ \E f \in FetchIds : FetchFail(f) /\ CacheFrame
    \/ \E k \in Keys : GetCachedOnly(k) /\ CacheFrame
    \/ \E k \in Keys : Has(k) /\ CacheFrame
    \/ \E k \in Keys, data \in Values, ttl \in TtlChoices : Set(k, data, ttl) /\ CacheFrame
    \/ \E k \in Keys : Delete(k) /\ CacheFrame
    \/ Clear /\ CacheFrame
    \/ Cleanup /\ CacheFrame
    \/ Tick /\ CacheFrame

Spec == InitAll /\ [][Next]_allVars

\* only get without forceRefresh, the completions, the clock and the interval
\* timer's cleanup: the cache as a caller who only reads through it sees it
NextGets ==
    \/ \E k \in Keys : GetHit(k) /\ CacheFrame
    \/ \E k \in Keys : GetJoin(k) /\ CacheFrame
    \/ \E k \in Keys, ttl \in TtlChoices : GetMiss(k, ttl) /\ CacheFrame
    \/ \E f \in FetchIds, data \in Values : FetchOk(f, data) /\ CacheFrame
    \/ \E f \in FetchIds : FetchFail(f) /\ CacheFrame
    \/ Cleanup /\ CacheFrame
    \/ Tick /\ CacheFrame

SpecGets == InitAll /\ [][NextGets]_allVars

\* every fetch is started by a get with forceRefresh; entries are also written
\* by set and read by get
NextForce ==
    \/ \E k \in Keys, ttl \in TtlChoices : GetForce(k, ttl) /\ CacheFrame
    \/ \E k \in Keys : GetHit(k) /\ CacheFrame
    \/ \E f \in FetchIds, data \in Values : FetchOk(f, data) /\ CacheFrame
    \/ \E f \in FetchIds : FetchFail(f) /\ CacheFrame
    \/ \E k \in Keys, data \in Values, ttl \in TtlChoices : Set(k, data, ttl) /\ CacheFrame
    \/ Tick /\ CacheFrame

SpecForce == InitAll /\ [][NextForce]_allVars

\* ========================================================= CircuitBreaker
\* the instance under study is new CircuitBreaker({ failureThreshold: 2,
\* successThreshold: 2, timeout: 60000, windowSize: 120000 })
failureThreshold == 2
successThreshold == 2
timeout == 60000
windowSize == 120000

\* bounds of the breaker's runs
BreakerTickMs == 60000
MaxBreakerTicks == 4
MaxOps == 2

\* a variant that lets a call through while the timeout is still running
shouldAttemptResetReversed(t) == t - lastFailureTime <= timeout

\* a variant that waits one instant longer than the timeout
shouldAttemptResetLate(t) == t - lastFailureTime > timeout

shouldAttemptReset(t) == t - lastFailureTime >= timeout

\* a variant of the window filter that keeps every failure
RecentFailuresUnpruned(fs, t) == fs

\* onFailure: this.failures.filter(time => time >= windowStart)
RecentFailures(fs, t) == SelectSeq(fs, LAMBDA time : time >= t - windowSize)

\* a variant that opens one failure late
ReachesThresholdLate(recent) == Len(recent) > failureThreshold

\* onFailure: recentFailures.length >= failureThreshold
ReachesThreshold(recent) == Len(recent) >= failureThreshold

BreakerFrame ==
    UNCHANGED <<cache, pendingRequests, fetches, enableDeduplication, ret, retryVars,
                managerVars, serviceVars,
                hashVars, lifecycleVars, statsVars, recoveryVars>>

\* a variant in which a rejected call is recorded as a failure
ExecuteRejectedRecordsFailure ==
    /\ state = "OPEN"
    /\ ~(now - lastFailureTime >= timeout)
    /\ failureCount' = failureCount + 1
    /\ lastFailureTime' = now
    /\ failures' = Append(failures, now)
    /\ bret' = BRet("rejected", state)
    /\ UNCHANGED <<state, successCount, inFlightOps, halfOpenStreak,
                   failuresSinceClosed, now>>

\* execute() while OPEN and the timeout has not elapsed: throws, fn is not called
ExecuteRejected ==
    /\ state = "OPEN"
    /\ ~shouldAttemptReset(now)
    /\ bret' = BRet("rejected", state)
    /\ UNCHANGED <<state, failureCount, successCount, lastFailureTime, failures,
                   inFlightOps, halfOpenStreak, failuresSinceClosed, now>>

\* execute() otherwise: OPEN becomes HALF_OPEN, fn is called and awaited
ExecuteAdmitted ==
    /\ state = "OPEN" => shouldAttemptReset(now)
    /\ inFlightOps < MaxOps
    /\ state' = IF state = "OPEN" THEN "HALF_OPEN" ELSE state
    /\ inFlightOps' = inFlightOps + 1
    /\ bret' = BRet("admitted", state)
    /\ UNCHANGED <<failureCount, successCount, lastFailureTime, failures,
                   halfOpenStreak, failuresSinceClosed, now>>

\* fn resolved: onSuccess
OpSuccess ==
    /\ inFlightOps > 0
    /\ inFlightOps' = inFlightOps - 1
    /\ failureCount' = 0
    /\ IF state = "HALF_OPEN"
       THEN IF successCount + 1 >= successThreshold
            THEN /\ state' = "CLOSED"
                 /\ successCount' = 0
                 /\ failuresSinceClosed' = 0
            ELSE /\ state' = state
                 /\ successCount' = successCount + 1
                 /\ failuresSinceClosed' = failuresSinceClosed
       ELSE UNCHANGED <<state, successCount, failuresSinceClosed>>
    /\ halfOpenStreak' = IF state = "HALF_OPEN" THEN halfOpenStreak + 1 ELSE halfOpenStreak
    /\ bret' = BRet("success", state)
    /\ UNCHANGED <<lastFailureTime, failures, now>>

\* fn rejected: onFailure
OpFailure ==
    /\ inFlightOps > 0
    /\ inFlightOps' = inFlightOps - 1
    /\ failureCount' = failureCount + 1
    /\ lastFailureTime' = now
    /\ LET recentFailures == RecentFailures(Append(failures, now), now)
       IN /\ failures' = recentFailures
          /\ IF ReachesThreshold(recentFailures)
             THEN state' = "OPEN" /\ successCount' = 0
             ELSE UNCHANGED <<state, successCount>>
    /\ halfOpenStreak' = 0
    /\ failuresSinceClosed' = failuresSinceClosed + 1
    /\ bret' = BRet("failure", state)
    /\ UNCHANGED now

\* a variant of reset() that keeps the recorded failures
BreakerResetKeepsWindow ==
    /\ state' = "CLOSED"
    /\ failureCount' = 0
    /\ successCount' = 0
    /\ halfOpenStreak' = 0
    /\ failuresSinceClosed' = 0
    /\ bret' = BRet("reset", state)
    /\ UNCHANGED <<failures, lastFailureTime, inFlightOps, now>>

\* reset()
BreakerReset ==
    /\ state' = "CLOSED"
    /\ failureCount' = 0
    /\ successCount' = 0
    /\ failures' = <<>>
    /\ halfOpenStreak' = 0
    /\ failuresSinceClosed' = 0
    /\ bret' = BRet("reset", state)
    /\ UNCHANGED <<lastFailureTime, inFlightOps, now>>

\* time passes
BreakerTick ==
    /\ now < MaxBreakerTicks * BreakerTickMs
    /\ now' = now + BreakerTickMs
    /\ bret' = BRet("none", state)
    /\ UNCHANGED <<state, failureCount, successCount, lastFailureTime, failures,
                   inFlightOps, halfOpenStreak, failuresSinceClosed>>

NextBreaker ==
    \/ ExecuteRejected /\ BreakerFrame
    \/ ExecuteAdmitted /\ BreakerFrame
    \/ OpSuccess /\ BreakerFrame
    \/ OpFailure /\ BreakerFrame
    \/ BreakerReset /\ BreakerFrame
    \/ BreakerTick /\ BreakerFrame

SpecBreaker == InitAll /\ [][NextBreaker]_allVars

\* ------------------------------------------------- the breaker, recovering
\* The same breaker on a clock of half ticks, so that calls arrive between a
\* failure and the end of the timeout, and with a point from which every
\* wrapped operation succeeds.  That point leaves the clock room for one timeout.
RecoveryFrame ==
    UNCHANGED <<cache, pendingRequests, fetches, enableDeduplication, ret, retryVars,
                managerVars, serviceVars, hashVars, lifecycleVars, statsVars>>

\* from now on the wrapped operations succeed
RecoveryStarts ==
    /\ ~recovering
    /\ now + timeout <= MaxBreakerTicks * BreakerTickMs
    /\ recovering' = TRUE
    /\ UNCHANGED <<breakerVars, now>>
    /\ RecoveryFrame

\* fn rejected, which it does not once the operations succeed
OpFailureBeforeRecovery ==
    /\ ~recovering
    /\ OpFailure
    /\ BreakerFrame

\* half a tick passes
RecoveryTick ==
    /\ now < MaxBreakerTicks * BreakerTickMs
    /\ now' = now + BreakerTickMs \div 2
    /\ bret' = BRet("none", state)
    /\ UNCHANGED <<state, failureCount, successCount, lastFailureTime, failures,
                   inFlightOps, halfOpenStreak, failuresSinceClosed>>
    /\ BreakerFrame

\* a call is issued and admitted
CallAdmitted == ExecuteAdmitted /\ BreakerFrame

\* the wrapped operation settles
OpEnds == (OpSuccess /\ BreakerFrame) \/ OpFailureBeforeRecovery

NextRecovery ==
    \/ ExecuteRejected /\ BreakerFrame
    \/ CallAdmitted
    \/ OpSuccess /\ BreakerFrame
    \/ OpFailureBeforeRecovery
    \/ BreakerReset /\ BreakerFrame
    \/ RecoveryTick
    \/ RecoveryStarts

SpecRecovery == InitAll /\ [][NextRecovery]_allVars

\* time keeps advancing, calls keep being issued, and every wrapped operation
\* settles
SpecRecoveryFair ==
    /\ SpecRecovery
    /\ WF_allVars(RecoveryTick)
    /\ WF_allVars(CallAdmitted)
    /\ WF_allVars(OpEnds)

\* ========================================================== RetryStrategy
\* the strategies under study are new RetryStrategy({ maxAttempts, baseDelay:
\* 1000, maxDelay: 3000, backoffMultiplier: 2, jitter }) for every maxAttempts
\* up to MaxAttemptsBound and both values of jitter
baseDelay == 1000
maxDelay == 3000
backoffMultiplier == 2

MaxAttemptsBound == 4
NumResults == 2

RetryConfigs == [maxAttempts : 0..MaxAttemptsBound, jitter : BOOLEAN]

\* Math.random(), in thousandths
RandomChoices == {0, 500, 999}

\* the status codes an operation fails with; 0 stands for no status code
StatusCodes == {0, 400, 404, 408, 429, 500, 501, 502, 503, 504}

\* what fn() can reject with, before it gets the number of its invocation
ErrorKinds ==
    [type : {"NetworkError"}, statusCode : StatusCodes]
      \cup [type : {"TimeoutError", "GraphQLApiError", "ParseError", "RateLimitError"},
            statusCode : {0}]

RetryableCodes == {408, 429, 502, 503, 504}

\* a variant that retries whatever the operation fails with
shouldRetryAlways(error) == TRUE

shouldRetry(error) ==
    IF error.type = "NetworkError"
    THEN IF error.statusCode # 0 /\ error.statusCode >= 400 /\ error.statusCode < 500
         THEN error.statusCode \in RetryableCodes
         ELSE TRUE
    ELSE error.type = "TimeoutError"

RECURSIVE Pow(_, _)
Pow(b, n) == IF n = 0 THEN 1 ELSE b * Pow(b, n - 1)

Min(a, b) == IF a < b THEN a ELSE b

\* a variant without the cap
calculateDelayUncapped(a, jitter, random) ==
    LET delay == baseDelay * Pow(backoffMultiplier, a - 1)
    IN  IF jitter THEN (delay * (1000 + random)) \div 2000 ELSE delay

calculateDelay(a, jitter, random) ==
    LET delay == Min(baseDelay * Pow(backoffMultiplier, a - 1), maxDelay)
    IN  IF jitter THEN (delay * (1000 + random)) \div 2000 ELSE delay

\* a variant of the loop test that allows one attempt more
attemptsExhaustedLate(a) == a > retryConfig.maxAttempts

\* attempt >= this.config.maxAttempts
attemptsExhausted(a) == a >= retryConfig.maxAttempts

RetryFrame ==
    UNCHANGED <<vars, breakerVars, managerVars, serviceVars,
                hashVars, lifecycleVars, statsVars, recoveryVars>>

\* new RetryStrategy(config).execute(fn) up to the first await
RetryExecute(config) ==
    /\ retryPc = "idle"
    /\ retryConfig' = config
    /\ attempt' = 0
    /\ lastError' = Undefined
    /\ delayMs' = 0
    /\ IF 0 < config.maxAttempts
       THEN /\ retryPc' = "calling"
            /\ invocations' = 1
            /\ retryResult' = NoResult
       ELSE /\ retryPc' = "thrown"
            /\ invocations' = 0
            /\ retryResult' = [kind |-> "error", error |-> Undefined]

\* fn() resolved: return await fn()
OpResolve(v) ==
    /\ retryPc = "calling"
    /\ retryPc' = "returned"
    /\ retryResult' = [kind |-> "value", val |-> v, of |-> invocations]
    /\ UNCHANGED <<retryConfig, attempt, lastError, delayMs, invocations>>

\* a variant of the catch block that throws the first error it saw when the
\* attempts are exhausted
OpRejectThrowsFirstError(kind, random) ==
    /\ retryPc = "calling"
    /\ LET error == [type |-> kind.type, statusCode |-> kind.statusCode, id |-> invocations]
       IN /\ lastError' = error
          /\ attempt' = attempt + 1
          /\ IF ~shouldRetry(error)
             THEN /\ retryPc' = "thrown"
                  /\ retryResult' = [kind |-> "error", error |-> error]
                  /\ delayMs' = delayMs
             ELSE IF attemptsExhausted(attempt + 1)
             THEN /\ retryPc' = "thrown"
                  /\ retryResult' =
                       [kind |-> "error",
                        error |-> IF attempt = 0 THEN error ELSE [lastError EXCEPT !.id = 1]]
                  /\ delayMs' = delayMs
             ELSE /\ retryPc' = "waiting"
                  /\ retryResult' = retryResult
                  /\ delayMs' = calculateDelay(attempt + 1, retryConfig.jitter, random)
    /\ UNCHANGED <<retryConfig, invocations>>

\* fn() rejected or threw: the catch block up to its throw, break or await
OpReject(kind, random) ==
    /\ retryPc = "calling"
    /\ LET error == [type |-> kind.type, statusCode |-> kind.statusCode, id |-> invocations]
       IN /\ lastError' = error
          /\ attempt' = attempt + 1
          /\ IF ~shouldRetry(error)
             THEN /\ retryPc' = "thrown"
                  /\ retryResult' = [kind |-> "error", error |-> error]
                  /\ delayMs' = delayMs
             ELSE IF attemptsExhausted(attempt + 1)
             THEN /\ retryPc' = "thrown"
                  /\ retryResult' = [kind |-> "error", error |-> error]
                  /\ delayMs' = delayMs
             ELSE /\ retryPc' = "waiting"
                  /\ retryResult' = retryResult
                  /\ delayMs' = calculateDelay(attempt + 1, retryConfig.jitter, random)
    /\ UNCHANGED <<retryConfig, invocations>>

\* the timer of delay() fired: the loop test, then the next fn()
DelayElapsed ==
    /\ retryPc = "waiting"
    /\ IF ~attemptsExhausted(attempt)
       THEN /\ retryPc' = "calling"
            /\ invocations' = invocations + 1
            /\ retryResult' = retryResult
       ELSE /\ retryPc' = "thrown"
            /\ invocations' = invocations
            /\ retryResult' = [kind |-> "error", error |-> lastError]
    /\ UNCHANGED <<retryConfig, attempt, lastError, delayMs>>

\* the caller got the result; the next execute() can start
RetrySettled ==
    /\ retryPc \in {"returned", "thrown"}
    /\ retryPc' = "idle"
    /\ UNCHANGED <<retryConfig, attempt, lastError, delayMs, retryResult, invocations>>

\* the invocation of fn that execute() is awaiting settles
OpSettles ==
    /\ \/ \E v \in 1..NumResults : OpResolve(v)
       \/ \E kind \in ErrorKinds, random \in RandomChoices : OpReject(kind, random)
    /\ RetryFrame

\* the timer of delay() fires
TimerFires == DelayElapsed /\ RetryFrame

NextRetry ==
    \/ \E config \in RetryConfigs : RetryExecute(config) /\ RetryFrame
    \/ \E v \in 1..NumResults : OpResolve(v) /\ RetryFrame
    \/ \E kind \in ErrorKinds, random \in RandomChoices : OpReject(kind, random) /\ RetryFrame
    \/ DelayElapsed /\ RetryFrame
    \/ RetrySettled /\ RetryFrame

SpecRetry == InitAll /\ [][NextRetry]_allVars

\* every invocation of the operation settles, and every timer fires
SpecRetryFair ==
    /\ SpecRetry
    /\ WF_allVars(OpSettles)
    /\ WF_allVars(TimerFires)

\* ====================================================== ResilienceManager
\* the manager under study is new ResilienceManager({ failureThreshold: 2,
\* successThreshold: 2, timeout: 60000, windowSize: 120000 }, { maxDelay: 3000 }):
\* the breaker above around a strategy with the default maxAttempts 3 and jitter
MaxRequests == 3
MaxManagerTicks == 2

\* what the wrapped function fails with in the manager's runs: an error that is
\* retried and one that is not
ManagerErrorKinds ==
    {kind \in ErrorKinds :
        \/ kind.type = "NetworkError" /\ kind.statusCode = 0
        \/ kind.type = "ParseError"}

\* Math.random() in the manager's runs
ManagerRandomChoices == {500}

ManagerFrame ==
    UNCHANGED <<cache, pendingRequests, fetches, enableDeduplication, ret, serviceVars,
                hashVars, lifecycleVars, statsVars, recoveryVars>>

\* updateAverageResponseTime: average * (1 - alpha) + responseTime * alpha, alpha = 0.1
updateAverageResponseTime(average, responseTime) ==
    [num |-> average.num * 9 + responseTime * Pow(10, average.exp), exp |-> average.exp + 1]

\* a variant in which the retry sequence starts although the breaker is Open
ManagerExecuteRejectedInvokes ==
    /\ managerPc = "idle"
    /\ metrics.totalRequests < MaxRequests
    /\ inFlightOps = 0
    /\ state = "OPEN"
    /\ ~shouldAttemptReset(now)
    /\ RetryExecute(retryConfig)
    /\ inFlightOps' = inFlightOps + 1
    /\ bret' = BRet("admitted", state)
    /\ metrics' = [metrics EXCEPT !.totalRequests = @ + 1]
    /\ managerPc' = "awaiting"
    /\ startTime' = now
    /\ UNCHANGED <<state, failureCount, successCount, lastFailureTime, failures,
                   halfOpenStreak, failuresSinceClosed, now, health>>
    /\ ManagerFrame

\* execute() while the breaker rejects: totalRequests++, circuitBreaker.execute throws
ManagerExecuteRejected ==
    /\ managerPc = "idle"
    /\ metrics.totalRequests < MaxRequests
    /\ ExecuteRejected
    /\ metrics' = [metrics EXCEPT !.totalRequests = @ + 1]
    /\ managerPc' = "rejected"
    /\ startTime' = now
    /\ UNCHANGED <<retryVars, health>>
    /\ ManagerFrame

\* execute() while the breaker admits: totalRequests++, circuitBreaker.execute
\* calls retryStrategy.execute(fn), which calls fn
ManagerExecuteAdmitted ==
    /\ managerPc = "idle"
    /\ metrics.totalRequests < MaxRequests
    /\ inFlightOps = 0
    /\ ExecuteAdmitted
    /\ RetryExecute(retryConfig)
    /\ metrics' = [metrics EXCEPT !.totalRequests = @ + 1]
    /\ managerPc' = "awaiting"
    /\ startTime' = now
    /\ UNCHANGED health
    /\ ManagerFrame

\* retryStrategy.execute returned: the breaker's onSuccess
BreakerSeesSuccess ==
    /\ retryPc = "returned"
    /\ OpSuccess
    /\ BreakerFrame

\* retryStrategy.execute threw: the breaker's onFailure
BreakerSeesFailure ==
    /\ retryPc = "thrown"
    /\ OpFailure
    /\ BreakerFrame

\* circuitBreaker.execute returned: the rest of the try block
ManagerSucceeded ==
    /\ managerPc = "awaiting" /\ retryPc = "returned" /\ inFlightOps = 0
    /\ RetrySettled
    /\ metrics' = [metrics EXCEPT
                     !.successfulRequests = @ + 1,
                     !.averageResponseTime = updateAverageResponseTime(@, now - startTime)]
    /\ managerPc' = "idle"
    /\ UNCHANGED <<startTime, now, breakerVars, health>>
    /\ ManagerFrame

\* circuitBreaker.execute threw: the catch block
ManagerFailed ==
    /\ \/ managerPc = "rejected" /\ UNCHANGED retryVars
       \/ managerPc = "awaiting" /\ retryPc = "thrown" /\ inFlightOps = 0 /\ RetrySettled
    /\ metrics' = [metrics EXCEPT
                     !.failedRequests = @ + 1,
                     !.averageResponseTime = updateAverageResponseTime(@, now - startTime)]
    /\ managerPc' = "idle"
    /\ UNCHANGED <<startTime, now, breakerVars, health>>
    /\ ManagerFrame

\* reset()
ManagerReset ==
    /\ BreakerReset
    /\ metrics' = [totalRequests |-> 0, successfulRequests |-> 0, failedRequests |-> 0,
                   averageResponseTime |-> ZeroAverage, lastUpdateTime |-> now]
    /\ UNCHANGED <<managerPc, startTime, retryVars, health>>
    /\ ManagerFrame

\* a variant of getMetrics that leaves the response time out
healthStatusWithoutLatency(cbState, m) ==
    IF cbState = "OPEN" THEN "unhealthy"
    ELSE IF m.totalRequests > 0 /\ m.successfulRequests * 100 < 90 * m.totalRequests
    THEN "degraded"
    ELSE "healthy"

\* getMetrics: healthStatus, from circuitBreaker.getStatus().state and the metrics;
\* successRate = successfulRequests / totalRequests * 100, or 100
healthStatus(cbState, m) ==
    IF cbState = "OPEN" THEN "unhealthy"
    ELSE IF m.totalRequests > 0 /\ m.successfulRequests * 100 < 90 * m.totalRequests
    THEN "degraded"
    ELSE IF m.averageResponseTime.num > 10000 * Pow(10, m.averageResponseTime.exp)
    THEN "degraded"
    ELSE "healthy"

\* getMetrics()
ManagerGetMetrics ==
    /\ health' = healthStatus(state, metrics)
    /\ UNCHANGED <<metrics, managerPc, startTime, breakerVars, retryVars, now>>
    /\ ManagerFrame

\* time passes
ManagerTick ==
    /\ now < MaxManagerTicks * BreakerTickMs
    /\ BreakerTick
    /\ BreakerFrame

NextResilience ==
    \/ ManagerExecuteRejected
    \/ ManagerExecuteAdmitted
    \/ OpResolve(1) /\ RetryFrame
    \/ \E kind \in ManagerErrorKinds, random \in ManagerRandomChoices :
         OpReject(kind, random) /\ RetryFrame
    \/ DelayElapsed /\ RetryFrame
    \/ BreakerSeesSuccess
    \/ BreakerSeesFailure
    \/ ManagerSucceeded
    \/ ManagerFailed
    \/ ManagerReset
    \/ ManagerGetMetrics
    \/ ManagerTick

SpecResilience == InitAll /\ [][NextResilience]_allVars

\* ========================================================== TarkovService
\* The fetch operations under study are fetchTraders, which stands for the four
\* fetch operations of TarkovService with the same try / catch around
\* executeQuery, and TarkovRepository.getAllQuests.  Both run as the producer
\* of globalCache.get; the services under study are new TarkovService({
\* retryAttempts, retryDelay: 1000, cacheTtl: 30000 }).
retryDelay == 1000

MaxRetryAttempts == 3

ServiceOps == {"fetchTraders", "getAllQuests"}

\* CacheKeys.traders() and CacheKeys.quests(); the storage keys
\* API_DATA_KEYS.TRADERS and API_DATA_KEYS.QUESTS are numbered alike
KeyOf(op) == IF op = "fetchTraders" THEN 1 ELSE 2

\* response.traders || []: a list with elements, named by a value, or the empty list
EmptyList == NumValues + 1
ServiceData == Values \cup {EmptyList}

\* what a request fails with, before it gets the number of the request:
\* NetworkError.fromResponse (status 404, 500), ParseError, GraphQLApiError,
\* and from makeRequest TimeoutError or a NetworkError without status code
ServiceErrorKinds ==
    [type : {"NetworkError"}, statusCode : {0, 404, 500}]
      \cup [type : {"TimeoutError", "GraphQLApiError", "ParseError"}, statusCode : {0}]

\* new Error('All retry attempts failed')
AllAttemptsFailed == [type |-> "Error", statusCode |-> 0, id |-> 0]

\* a variant that retries whatever the status code
thrownAtOnceWhateverStatus(error) ==
    \/ error.type = "GraphQLApiError"
    \/ error.type = "ParseError"

\* executeQuery: the errors that are thrown at once
thrownAtOnce(error) ==
    \/ error.type = "GraphQLApiError"
    \/ error.type = "ParseError"
    \/ error.type = "NetworkError" /\ error.statusCode # 0 /\ error.statusCode < 500

\* the fetch operations of TarkovService catch the error of executeQuery and
\* read persistent storage; getAllQuests has no catch
hasFallback(op) == op # "getAllQuests"

\* cachedTraders && cachedTraders.length > 0
usableSnapshot(snapshot) == snapshot # NoSnapshot /\ snapshot # EmptyList

ServiceFrame ==
    UNCHANGED <<breakerVars, retryVars, managerVars,
                hashVars, lifecycleVars, statsVars, recoveryVars>>

\* the producer settled: its locals and those of executeQuery are gone
ProducerEnds ==
    /\ servicePc' = "idle"
    /\ serviceAttempt' = 0
    /\ serviceLastError' = NoError
    /\ serviceDelayMs' = 0
    /\ serviceData' = 0
    /\ serviceFid' = 0

\* the producer resolved: fetchAndCache stores the data and get resolves
ProducerResolves(data, origin) ==
    /\ FetchOk(serviceFid, data)
    /\ serviceResult' = [kind |-> "value", val |-> data, origin |-> origin]
    /\ ProducerEnds

\* the producer rejected: fetchAndCache rethrows and get rejects
ProducerRejects(error) ==
    /\ FetchFail(serviceFid)
    /\ serviceResult' = [kind |-> "error", error |-> error]
    /\ ProducerEnds

\* executeQuery threw: the catch block of the fetch operation, if it has one
QueryThrows(error) ==
    IF hasFallback(serviceOp)
    THEN /\ servicePc' = "reading"
         /\ serviceLastError' = error
         /\ UNCHANGED <<vars, serviceResult, serviceAttempt, serviceDelayMs, serviceData,
                        serviceFid>>
    ELSE ProducerRejects(error)

\* a fetch operation is called: globalCache, which has enableDeduplication,
\* finds nothing valid (or forceRefresh is set) and runs the producer up to the
\* first request
ServiceFetch(op, config, forceRefresh) ==
    /\ servicePc = "idle"
    /\ enableDeduplication
    /\ InFlight # FetchIds
    /\ serviceOp' = op
    /\ serviceConfig' = config
    /\ serviceFid' = FreeId
    /\ serviceLastError' = NoError
    /\ serviceData' = 0
    /\ serviceDelayMs' = 0
    /\ serviceResult' = NoResult
    /\ IF forceRefresh
       THEN FetchStart(cache, KeyOf(op), configTtl, "forceFetch")
       ELSE /\ getCachedData(cache, KeyOf(op), now) = 0
            /\ ~(enableDeduplication /\ pendingRequests[KeyOf(op)] # NoPending)
            /\ FetchStart(AfterLookup(cache, KeyOf(op), now), KeyOf(op), configTtl, "fetch")
    /\ serviceAttempt' = 1
    /\ IF 1 <= config.retryAttempts
       THEN servicePc' = "requesting" /\ serviceRequests' = 1
       ELSE servicePc' = "failing" /\ serviceRequests' = 0
    /\ UNCHANGED storage

\* executeQuery with retryAttempts < 1: throw lastError || new Error(...)
QueryWithoutAttempts ==
    /\ servicePc = "failing"
    /\ QueryThrows(AllAttemptsFailed)
    /\ UNCHANGED <<storage, serviceConfig, serviceOp, serviceRequests>>

\* the request succeeded and the response holds data: executeQuery returns,
\* the fetch operation starts the write to persistent storage
RequestOk(data) ==
    /\ servicePc = "requesting"
    /\ serviceData' = data
    /\ servicePc' = "storing"
    /\ UNCHANGED <<vars, storage, serviceConfig, serviceOp, serviceAttempt,
                   serviceLastError, serviceDelayMs, serviceFid, serviceResult,
                   serviceRequests>>

\* the request failed: the catch block of executeQuery
RequestFails(kind) ==
    /\ servicePc = "requesting"
    /\ LET error == [type |-> kind.type, statusCode |-> kind.statusCode,
                     id |-> serviceRequests]
       IN IF thrownAtOnce(error) \/ serviceAttempt >= serviceConfig.retryAttempts
          THEN QueryThrows(error)
          ELSE /\ servicePc' = "waiting"
               /\ serviceLastError' = error
               /\ serviceDelayMs' = retryDelay * serviceAttempt
               /\ UNCHANGED <<vars, serviceAttempt, serviceResult, serviceData, serviceFid>>
    /\ UNCHANGED <<storage, serviceConfig, serviceOp, serviceRequests>>

\* the timer of delay() fired: the next attempt
ServiceDelayElapsed ==
    /\ servicePc = "waiting"
    /\ serviceAttempt' = serviceAttempt + 1
    /\ serviceRequests' = serviceRequests + 1
    /\ servicePc' = "requesting"
    /\ UNCHANGED <<vars, storage, serviceConfig, serviceOp, serviceLastError,
                   serviceDelayMs, serviceData, serviceFid, serviceResult>>

\* the write to persistent storage ended, well or not (storeApiData and
\* safeStorageOperation swallow its error): the producer returns the data
StoreSettles(written) ==
    /\ servicePc = "storing"
    /\ storage' = IF written THEN [storage EXCEPT ![KeyOf(serviceOp)] = serviceData]
                  ELSE storage
    /\ ProducerResolves(serviceData, "live")
    /\ UNCHANGED <<serviceConfig, serviceOp, serviceRequests>>

\* a variant in which a failed read of persistent storage reaches the caller
ReadSettlesMasksError(readable) ==
    /\ servicePc = "reading"
    /\ IF ~readable
       THEN ProducerRejects([type |-> "StorageError", statusCode |-> 0, id |-> 0])
       ELSE IF usableSnapshot(storage[KeyOf(serviceOp)])
       THEN ProducerResolves(storage[KeyOf(serviceOp)], "snapshot")
       ELSE ProducerRejects(serviceLastError)
    /\ UNCHANGED <<storage, serviceConfig, serviceOp, serviceRequests>>

\* the read of persistent storage ended, well or not (getApiData and
\* safeStorageOperation turn its error into null)
ReadSettles(readable) ==
    /\ servicePc = "reading"
    /\ LET snapshot == IF readable THEN storage[KeyOf(serviceOp)] ELSE NoSnapshot
       IN IF usableSnapshot(snapshot)
          THEN ProducerResolves(snapshot, "snapshot")
          ELSE ProducerRejects(serviceLastError)
    /\ UNCHANGED <<storage, serviceConfig, serviceOp, serviceRequests>>

NextService ==
    \/ \E op \in ServiceOps, attempts \in 0..MaxRetryAttempts, forceRefresh \in BOOLEAN :
         ServiceFetch(op, [retryAttempts |-> attempts], forceRefresh) /\ ServiceFrame
    \/ QueryWithoutAttempts /\ ServiceFrame
    \/ \E data \in ServiceData : RequestOk(data) /\ ServiceFrame
    \/ \E kind \in ServiceErrorKinds : RequestFails(kind) /\ ServiceFrame
    \/ ServiceDelayElapsed /\ ServiceFrame
    \/ \E written \in BOOLEAN : StoreSettles(written) /\ ServiceFrame
    \/ \E readable \in BOOLEAN : ReadSettles(readable) /\ ServiceFrame
    \/ \E op \in ServiceOps : GetHit(KeyOf(op)) /\ CacheFrame
    \/ Tick /\ CacheFrame

SpecService == InitAll /\ [][NextService]_allVars

\* ====================================================== hashPlayerSettings
\* Strings are sequences of UTF-16 code units.  A settings object lists its
\* hideout modules in the insertion order of the record and its completed
\* quest ids in the order of the array.
MaxModules == 2
MaxLevel == 2
MaxQuestIds == 2
MaxHashCalls == 2

\* the module names "A", "B" and the quest ids "A", "Aa", "BB"
ModuleKeys == {<<65>>, <<66>>}
QuestIdStrings == {<<65>>, <<65, 97>>, <<66, 66>>}

SeqsUpTo(S, n) == UNION {[1..m -> S] : m \in 0..n}

ModuleLists ==
    {l \in SeqsUpTo([k : ModuleKeys, v : 1..MaxLevel], MaxModules) :
        \A i, j \in 1..Len(l) : i # j => l[i].k # l[j].k}

\* hashPlayerSettings() without an argument
NoSettings == [given |-> FALSE, hideoutModuleLevels |-> <<>>, completedQuestIds |-> <<>>]

SettingsInputs ==
    {NoSettings} \cup
    [given : {TRUE}, hideoutModuleLevels : ModuleLists,
     completedQuestIds : SeqsUpTo(QuestIdStrings, MaxQuestIds)]

\* the order of Array.prototype.sort() on strings: by code units
RECURSIVE StringLess(_, _)
StringLess(a, b) ==
    IF b = <<>> THEN FALSE
    ELSE IF a = <<>> THEN TRUE
    ELSE IF a[1] # b[1] THEN a[1] < b[1]
    ELSE StringLess(Tail(a), Tail(b))

RECURSIVE InsertString(_, _)
InsertString(sorted, e) ==
    IF sorted = <<>> THEN <<e>>
    ELSE IF StringLess(e, sorted[1]) THEN <<e>> \o sorted
    ELSE <<sorted[1]>> \o InsertString(Tail(sorted), e)

\* [...completedQuestIds].sort()
RECURSIVE SortStrings(_)
SortStrings(l) ==
    IF l = <<>> THEN <<>>
    ELSE InsertString(SortStrings(SubSeq(l, 1, Len(l) - 1)), l[Len(l)])

RECURSIVE InsertModule(_, _)
InsertModule(sorted, e) ==
    IF sorted = <<>> THEN <<e>>
    ELSE IF StringLess(e.k, sorted[1].k) THEN <<e>> \o sorted
    ELSE <<sorted[1]>> \o InsertModule(Tail(sorted), e)

\* Object.entries(hideoutModuleLevels).sort(([a], [b]) => a.localeCompare(b));
\* on the module names used here localeCompare orders as the code units do
RECURSIVE SortModules(_)
SortModules(l) ==
    IF l = <<>> THEN <<>>
    ELSE InsertModule(SortModules(SubSeq(l, 1, Len(l) - 1)), l[Len(l)])

\* String(v) of a non-negative integer
RECURSIVE DecimalString(_)
DecimalString(n) ==
    IF n < 10 THEN <<48 + n>> ELSE DecimalString(n \div 10) \o <<48 + (n % 10)>>

\* .join(',')
RECURSIVE Join(_)
Join(l) ==
    IF l = <<>> THEN <<>>
    ELSE IF Len(l) = 1 THEN l[1]
    ELSE l[1] \o <<44>> \o Join(Tail(l))

\* `h:${hideoutHash}|q:${questsHash}`
hashInput(settings) ==
    LET sortedModules == SortModules(settings.hideoutModuleLevels)
        hideoutHash ==
            Join([i \in 1..Len(sortedModules) |->
                    sortedModules[i].k \o <<58>> \o DecimalString(sortedModules[i].v)])
        questsHash == Join(SortStrings(settings.completedQuestIds))
    IN  <<104, 58>> \o hideoutHash \o <<124, 113, 58>> \o questsHash

\* a 32-bit integer is kept as two 16-bit halves, [hi, lo] for hi * 65536 + lo
\* taken modulo 2^32: hash = ((hash << 5) - hash) + char; hash = hash & hash
hashStep(hash, char) ==
    LET low == 31 * hash.lo + char
    IN  [hi |-> (31 * hash.hi + (low \div 65536)) % 65536, lo |-> low % 65536]

RECURSIVE hashLoop(_, _)
hashLoop(hash, input) ==
    IF input = <<>> THEN hash ELSE hashLoop(hashStep(hash, input[1]), Tail(input))

\* Math.abs of the signed 32-bit integer: the magnitude, again in halves
\* (2^31 for the most negative one)
mathAbs(hash) ==
    IF hash.hi < 32768 THEN hash
    ELSE IF hash.lo = 0 THEN [hi |-> 65536 - hash.hi, lo |-> 0]
    ELSE [hi |-> 65535 - hash.hi, lo |-> 65536 - hash.lo]

\* Number.prototype.toString(36) of a non-negative integer
RECURSIVE toString36(_)
toString36(n) ==
    LET rest == (n.hi % 36) * 65536 + n.lo
        quotient == [hi |-> n.hi \div 36, lo |-> rest \div 36]
        digit == rest % 36
        char == IF digit < 10 THEN 48 + digit ELSE 87 + digit
    IN  IF quotient.hi = 0 /\ quotient.lo = 0 THEN <<char>>
        ELSE toString36(quotient) \o <<char>>

\* hashPlayerSettings(settings); "default" without settings
hashPlayerSettings(settings) ==
    IF ~settings.given THEN <<100, 101, 102, 97, 117, 108, 116>>
    ELSE toString36(mathAbs(hashLoop([hi |-> 0, lo |-> 0], hashInput(settings))))

HashFrame ==
    UNCHANGED <<vars, breakerVars, retryVars, managerVars, serviceVars,
                lifecycleVars, statsVars, recoveryVars>>

\* a call of hashPlayerSettings
HashPlayerSettings(settings) ==
    /\ Len(hashed) < MaxHashCalls
    /\ hashed' = Append(hashed, [settings |-> settings,
                                 key |-> hashPlayerSettings(settings)])

NextHash == \E settings \in SettingsInputs : HashPlayerSettings(settings) /\ HashFrame

SpecHash == InitAll /\ [][NextHash]_allVars

\* ============================================= TarkovCache: delete, destroy
\* The cache of the first part, with its interval timer and destroy(), and with
\* the record of the fetches whose key was removed under them.
FetchesOf(k) == {f \in InFlight : fetches[f].key = k}

LifecycleFrame ==
    UNCHANGED <<breakerVars, retryVars, managerVars, serviceVars, hashVars, statsVars,
                recoveryVars>>

\* a get or a set of key k
Touches(k) ==
    /\ dropped' = dropped \ FetchesOf(k)
    /\ UNCHANGED cleanupTimer

\* the completion of fetch f
Settles(f) ==
    /\ dropped' = dropped \ {f}
    /\ UNCHANGED cleanupTimer

\* delete(k) with fetches of k in flight
DeleteUnderFetch(k) ==
    /\ Delete(k)
    /\ dropped' = dropped \cup FetchesOf(k)
    /\ UNCHANGED cleanupTimer

\* clear() with fetches in flight
ClearUnderFetch ==
    /\ Clear
    /\ dropped' = InFlight
    /\ UNCHANGED cleanupTimer

\* destroy(): clearInterval, cleanupTimer = undefined, clear()
Destroy ==
    /\ Clear
    /\ cleanupTimer' = FALSE
    /\ dropped' = InFlight

\* the interval timer of the constructor runs cleanup()
TimerCleanup ==
    /\ cleanupTimer
    /\ Cleanup
    /\ UNCHANGED lifecycleVars

NextLifecycle ==
    \/ \E k \in Keys : GetForce(k, configTtl) /\ Touches(k) /\ LifecycleFrame
    \/ \E k \in Keys : GetHit(k) /\ Touches(k) /\ LifecycleFrame
    \/ \E k \in Keys : GetJoin(k) /\ Touches(k) /\ LifecycleFrame
    \/ \E k \in Keys : GetMiss(k, configTtl) /\ Touches(k) /\ LifecycleFrame
    \/ \E f \in FetchIds, data \in Values : FetchOk(f, data) /\ Settles(f) /\ LifecycleFrame
    \/ \E f \in FetchIds : FetchFail(f) /\ Settles(f) /\ LifecycleFrame
    \/ \E k \in Keys, data \in Values : Set(k, data, configTtl) /\ Touches(k) /\ LifecycleFrame
    \/ \E k \in Keys : DeleteUnderFetch(k) /\ LifecycleFrame
    \/ ClearUnderFetch /\ LifecycleFrame
    \/ Destroy /\ LifecycleFrame
    \/ TimerCleanup /\ LifecycleFrame
    \/ Tick /\ UNCHANGED lifecycleVars /\ LifecycleFrame

SpecLifecycle == InitAll /\ [][NextLifecycle]_allVars

\* ==================================================== TarkovCache: stats
\* The reads of the cache with the counters of this.stats.  The counters
\* influence nothing else in the cache; they are bounded here by MaxCount.
MaxCount == 2

StatsFrame ==
    UNCHANGED <<breakerVars, retryVars, managerVars, serviceVars, hashVars,
                lifecycleVars, recoveryVars>>

Count(counter) ==
    /\ stats[counter] < MaxCount
    /\ stats' = [stats EXCEPT ![counter] = @ + 1]

\* get with forceRefresh: no counter
GetForceCounted(k, ttl) == GetForce(k, ttl) /\ UNCHANGED stats

\* get, a valid entry: this.stats.hits++
GetHitCounted(k) == GetHit(k) /\ Count("hits")

\* a variant in which a joined request is counted as a miss
GetJoinCountedAsMiss(k) == GetJoin(k) /\ Count("misses")

\* get, a pending request: this.stats.deduplicatedRequests++
GetJoinCounted(k) == GetJoin(k) /\ Count("deduplicatedRequests")

\* get, neither: this.stats.misses++, then fetchAndCache
GetMissCounted(k, ttl) == GetMiss(k, ttl) /\ Count("misses")

\* getCachedOnly: this.stats.hits++ when there is a valid entry
GetCachedOnlyCounted(k) ==
    /\ GetCachedOnly(k)
    /\ IF getCachedData(cache, k, now) # 0 THEN Count("hits") ELSE UNCHANGED stats

NextStats ==
    \/ \E k \in Keys : GetForceCounted(k, configTtl) /\ StatsFrame
    \/ \E k \in Keys : GetHitCounted(k) /\ StatsFrame
    \/ \E k \in Keys : GetJoinCounted(k) /\ StatsFrame
    \/ \E k \in Keys : GetMissCounted(k, configTtl) /\ StatsFrame
    \/ \E k \in Keys : GetCachedOnlyCounted(k) /\ StatsFrame
    \/ \E f \in FetchIds, data \in Values :
         FetchOk(f, data) /\ UNCHANGED stats /\ StatsFrame
    \/ \E f \in FetchIds : FetchFail(f) /\ UNCHANGED stats /\ StatsFrame
    \/ Tick /\ UNCHANGED stats /\ StatsFrame

SpecStats == InitAll /\ [][NextStats]_allVars

\* ================================================================= claims
ValidAt(e, t) == t - e.timestamp <= e.ttl

EntriesOf(c, k) == {e \in Range(c) : e.key = k}

TupleLess(a, b) ==
    \/ a.hits < b.hits
    \/ a.hits = b.hits /\ a.timestamp < b.timestamp

\* C1: with deduplication enabled, get calls without forceRefresh for one key
\* that are issued before the first call's producer settles invoke the producer
\* once: no two producers started by such calls are in flight for the same key
\* (checked under SpecGets, where every fetch is started by such a get).
C1_DedupInvokesProducerOnce ==
    enableDeduplication =>
        \A f \in InFlight, g \in InFlight : f # g => fetches[f].key # fetches[g].key

\* C2: with deduplication enabled, under any interleaving of get (with or
\* without forceRefresh), set, delete, clear, cleanup and completions, at most
\* one producer invocation is in flight per cache key.
C2_AtMostOneInFlightPerKey ==
    enableDeduplication => \A k \in Keys : Cardinality(FetchesOf(k)) <= 1

\* C3: a get without forceRefresh on a stored entry with now - storedAt <= ttl
\* returns the stored value and starts no producer; with now - storedAt > ttl it
\* invokes the producer or joins a pending fetch and does not return the entry.
C3_TtlDecidesHitOrFetch ==
    [][\A k \in Keys :
         (ret'.op = "get" /\ ret'.key = k
            /\ ret'.kind \in {"hit", "join", "fetch", "throw"})
         => \A e \in EntriesOf(cache, k) :
              /\ ValidAt(e, now) =>
                   /\ ret'.kind = "hit"
                   /\ ret'.val = e.data
                   /\ fetches' = fetches
              /\ ~ValidAt(e, now) => ret'.kind \in {"join", "fetch", "throw"}]_vars

\* C3 witness: a hit on an entry read exactly at the end of its time-to-live
C3_HitAtTtlBoundary ==
    /\ ret.op = "get" /\ ret.kind = "hit"
    /\ \E e \in EntriesOf(cache, ret.key) :
         e.ttl > 0 /\ now - e.timestamp = e.ttl /\ e.data = ret.val

FailureStep == 
    \/ ret'.op = "get" /\ ret'.kind \in {"throw", "forceThrow"}
    \/ ret'.op = "settle" /\ ret'.kind = "err"

\* C4 as stated: a failed get leaves the entry map exactly as it was, and the
\* pending marker of the key is cleared so that the next get fetches afresh.
C4_FailedGetLeavesEntryMapUntouched ==
    [][FailureStep => cache' = cache /\ pendingRequests'[ret'.key] = NoPending]_vars

\* C4 amended: a failed get adds no entry and changes none; the one change to
\* the entry map is that the lookup of a get without forceRefresh deletes the
\* expired entry of its key; the pending marker of the key is cleared.
C4_FailedGetNeverPopulates ==
    [][(FailureStep \/ (ret'.op = "get" /\ ret'.kind \in {"fetch", "forceFetch"}))
         => /\ Range(cache') \subseteq Range(cache)
            /\ \A e \in Range(cache) \ Range(cache') :
                 /\ e.key = ret'.key
                 /\ ~ValidAt(e, now)
                 /\ ret'.kind \in {"throw", "fetch"}
            /\ FailureStep => pendingRequests'[ret'.key] = NoPending]_vars

\* C4 witness: a producer failed while an entry of its key stays stored
C4_FailedWithEntryKept ==
    /\ ret.op = "settle" /\ ret.kind = "err"
    /\ EntriesOf(cache, ret.key) # {}

\* C5: no pending marker outlives its fetch: every marker names a producer of
\* its key that has not settled, so once every producer has settled the
\* pending-request map is empty.
C5_NoPendingMarkerLeak ==
    /\ \A k \in Keys :
         pendingRequests[k] # NoPending => pendingRequests[k].fid \in FetchesOf(k)
    /\ InFlight = {} => \A k \in Keys : pendingRequests[k] = NoPending

\* C5 witness: the last producer in flight has just failed
C5_LastFetchFailed ==
    /\ enableDeduplication
    /\ ret.op = "settle" /\ ret.kind = "err"
    /\ InFlight = {}

\* C6: the cache never holds more than maxEntries entries, valid or expired.
C6_Capacity == Len(cache) <= maxEntries

\* C6 witness: an insertion into a full cache has just evicted
C6_EvictedAtCapacity ==
    /\ ret.op \in {"set", "settle"}
    /\ ret.evicted # {}
    /\ Len(cache) = maxEntries

C8_SetIsReadable ==
    ret.op = "set" =>
        /\ getCachedData(cache, ret.key, now) # 0
        /\ \A e \in EntriesOf(cache, ret.key) : e.data = ret.val

\* C9: a get with forceRefresh always invokes the producer, and when it succeeds
\* the entry of the key is the fresh result with the current timestamp, the
\* effective ttl and hit count 0 (checked under SpecForce, where every fetch is
\* started by a get with forceRefresh).
C9_ForceRefreshReplacesEntry ==
    [][/\ ret'.op = "get" /\ ret'.kind # "hit" => ret'.kind \in {"forceFetch", "forceThrow"}
       /\ \A f \in FetchIds :
            (ret'.op = "settle" /\ ret'.kind = "ok"
               /\ fetches[f] # NoFetch /\ fetches'[f] = NoFetch)
            => EntriesOf(cache', fetches[f].key) =
                 {[key |-> fetches[f].key, data |-> ret'.val, timestamp |-> now,
                   ttl |-> fetches[f].ttl, hits |-> 0]}]_vars

\* C10: cleanup removes exactly the entries with now - timestamp > ttl and the
\* pending markers older than 30 s, and returns the number of entries removed.
C10_CleanupSweeps ==
    [][ret'.op = "cleanup" =>
         /\ Range(cache') = {e \in Range(cache) : ValidAt(e, now)}
         /\ \A k \in Keys :
              pendingRequests'[k] =
                IF now - pendingRequests[k].timestamp > PendingMaxAgeMs
                THEN NoPending ELSE pendingRequests[k]
         /\ ret'.val = Cardinality(Range(cache) \ Range(cache'))]_vars

\* C10 witness: a cleanup removed an entry and kept a pending marker exactly 30 s old
C10_RemovedEntryKeptMarker ==
    /\ ret.op = "cleanup" /\ ret.val > 0
    /\ \E k \in Keys :
         /\ pendingRequests[k] # NoPending
         /\ now - pendingRequests[k].timestamp = PendingMaxAgeMs

\* --------------------------------------------------------- CircuitBreaker
\* the number of timestamps of fs that lie within the last windowSize at time t
WindowCount(fs, t) == Cardinality({i \in 1..Len(fs) : t - fs[i] <= windowSize})

\* a step of execute(): either the rejection or the admission of the call
ExecuteStep == bret'.op \in {"rejected", "admitted"}

\* C11: starting from Closed, a recorded failure opens the breaker exactly when
\* the number of recorded failures within the last windowSize has reached
\* failureThreshold; with fewer the breaker never leaves Closed.
C11_OpensAtThresholdInWindow ==
    [][state = "CLOSED" =>
         /\ bret'.op = "failure" =>
              (state' = "OPEN" <=> WindowCount(failures', now) >= failureThreshold)
         /\ state' # "CLOSED" =>
              /\ bret'.op = "failure"
              /\ state' = "OPEN"
              /\ WindowCount(failures', now) >= failureThreshold]_allVars

\* C11 witness: a failure opened the breaker from Closed, counting a failure
\* exactly windowSize old
C11_OpenedWithFailureAtWindowEdge ==
    /\ bret.op = "failure" /\ bret.from = "CLOSED" /\ state = "OPEN"
    /\ Len(failures) = failureThreshold
    /\ now - failures[1] = windowSize

\* C12: while Open and now - lastFailureTime < timeout, every call to execute
\* is rejected and the wrapped operation is not invoked.
C12_OpenRejectsBeforeTimeout ==
    [][state = "OPEN" /\ now - lastFailureTime < timeout /\ ExecuteStep =>
         /\ bret'.op = "rejected"
         /\ inFlightOps' = inFlightOps
         /\ state' = "OPEN"]_allVars

\* C12 witness: with failureThreshold = 2, the call after two failing calls was
\* rejected before the timeout had elapsed
C12_ThirdCallRejected ==
    /\ bret.op = "rejected"
    /\ failureCount = 2 /\ Len(failures) = 2
    /\ now - lastFailureTime < timeout

\* C13: while Open and now - lastFailureTime >= timeout, the next call to
\* execute moves the state to Half-Open and invokes the wrapped operation; the
\* breaker goes from Open to Closed only by reset().
C13_OpenToHalfOpenAfterTimeout ==
    [][/\ state = "OPEN" /\ now - lastFailureTime >= timeout /\ ExecuteStep =>
            /\ bret'.op = "admitted"
            /\ state' = "HALF_OPEN"
            /\ inFlightOps' = inFlightOps + 1
       /\ state = "OPEN" /\ state' = "CLOSED" => bret'.op = "reset"]_allVars

\* C13 witness: a call was admitted from Open exactly when the timeout elapsed
C13_AdmittedAtTimeout ==
    /\ bret.op = "admitted" /\ bret.from = "OPEN" /\ state = "HALF_OPEN"
    /\ now - lastFailureTime = timeout

\* C14: in Half-Open a success closes the breaker exactly when successThreshold
\* consecutive successes have been observed in Half-Open; successes separated
\* by a Half-Open failure do not add up.
C14_ClosesOnConsecutiveSuccesses ==
    [][state = "HALF_OPEN" /\ bret'.op = "success" =>
         (state' = "CLOSED" <=> halfOpenStreak' >= successThreshold)]_allVars

\* C15: any single failure observed while Half-Open moves the breaker
\* immediately back to Open.
C15_HalfOpenFailureOpens ==
    bret.op = "failure" /\ bret.from = "HALF_OPEN" => state = "OPEN"

\* C16: failures do not accumulate across successes: the breaker opens from
\* Closed only when the run of consecutive failures has reached
\* failureThreshold.
C16_OpensOnlyOnConsecutiveFailures ==
    [][state = "CLOSED" /\ state' = "OPEN" =>
         failureCount' >= failureThreshold]_allVars

\* C17: after a Half-Open to Closed transition the breaker re-opens only when
\* failureThreshold further failures have occurred; failures recorded before
\* the recovery do not count.
C17_ReopensOnlyOnFurtherFailures ==
    [][state = "CLOSED" /\ state' = "OPEN" =>
         failuresSinceClosed' >= failureThreshold]_allVars

\* C18: after every recorded failure the stored timestamps all lie within the
\* last windowSize, and a failure opens the breaker only if the failures within
\* the window, the new one included, number at least failureThreshold.
C18_WindowInvariant ==
    [][bret'.op = "failure" =>
         /\ \A i \in 1..Len(failures') : now - failures'[i] <= windowSize
         /\ state # "OPEN" /\ state' = "OPEN" =>
              WindowCount(failures, now) + 1 >= failureThreshold]_allVars

\* C18 witness: failureThreshold failures in a row left the breaker Closed,
\* because the earlier one had left the window
C18_OldFailureNotCounted ==
    /\ bret.op = "failure" /\ state = "CLOSED"
    /\ failureCount >= failureThreshold
    /\ Len(failures) < failureThreshold

\* C19: reset() from any state leaves the breaker Closed with failure count 0,
\* success count 0 and an empty failure window.
C19_ResetClearsEverything ==
    bret.op = "reset" =>
        /\ state = "CLOSED"
        /\ failureCount = 0
        /\ successCount = 0
        /\ failures = <<>>

\* C19 witness: reset() was called on an Open breaker
C19_ResetFromOpen ==
    bret.op = "reset" /\ bret.from = "OPEN" /\ lastFailureTime = now

\* ---------------------------------------------------------- RetryStrategy
\* C20: execute invokes the operation at most maxAttempts times in total, stops
\* at the first success and returns its value, and terminates provided every
\* invocation of the operation settles.
C20_BoundedAttemptsAndTermination ==
    /\ [](invocations <= retryConfig.maxAttempts)
    /\ [](retryPc = "returned" =>
            retryResult.kind = "value" /\ retryResult.of = invocations)
    /\ [][/\ \A v \in 1..NumResults :
               OpResolve(v) => retryPc' = "returned" /\ retryResult'.val = v
          /\ retryPc \in {"returned", "thrown"} => invocations' = invocations]_allVars
    /\ (retryPc \in {"calling", "waiting"} ~> retryPc \in {"returned", "thrown"})

\* C20 witness: execute returned the value of its last allowed attempt, after
\* maxAttempts - 1 failures
C20_SucceededOnLastAttempt ==
    /\ retryPc = "returned"
    /\ retryConfig.maxAttempts > 1
    /\ invocations = retryConfig.maxAttempts
    /\ retryResult.of = invocations

\* a step in which the awaited invocation of fn rejects
RejectStep == retryPc = "calling" /\ lastError' # lastError

\* C21: a network error with a status code is retried if and only if the code
\* is one of 408, 429, 502, 503, 504; any other coded error makes execute fail
\* after that attempt.
C21_CodedErrorsRetriedIffAllowlisted ==
    [][RejectStep /\ lastError'.type = "NetworkError" /\ lastError'.statusCode # 0 =>
         IF lastError'.statusCode \in {408, 429, 502, 503, 504}
         THEN retryPc' = "waiting" \/ attempt' >= retryConfig.maxAttempts
         ELSE retryPc' = "thrown"]_allVars

\* C22: network errors without a status code and timeout errors are retried
\* while attempts remain; GraphQL errors and parse errors are never retried,
\* execute fails with them at once.
C22_UncodedErrorsClassified ==
    [][RejectStep =>
         /\ \/ lastError'.type = "NetworkError" /\ lastError'.statusCode = 0
            \/ lastError'.type = "TimeoutError"
            => IF attempt' < retryConfig.maxAttempts
               THEN retryPc' = "waiting" ELSE retryPc' = "thrown"
         /\ lastError'.type \in {"GraphQLApiError", "ParseError"} =>
              /\ retryPc' = "thrown"
              /\ invocations' = invocations
              /\ retryResult' = [kind |-> "error", error |-> lastError']]_allVars

\* C22 witness: a parse error on the first invocation ended an execute that had
\* attempts left
C22_ParseErrorNotRetried ==
    /\ retryPc = "thrown" /\ lastError.type = "ParseError"
    /\ invocations = 1 /\ retryConfig.maxAttempts > 1

\* C23: when execute fails after invoking the operation, the error it throws
\* is the error raised by the last invocation, unchanged.
C23_LastErrorPropagates ==
    retryPc = "thrown" /\ invocations > 0 =>
        /\ retryResult = [kind |-> "error", error |-> lastError]
        /\ lastError.id = invocations

\* C23 witness: three attempts were exhausted and the error of the third was
\* thrown
C23_ExhaustedWithDifferentErrors ==
    /\ retryPc = "thrown" /\ invocations = 3 /\ retryConfig.maxAttempts = 3
    /\ retryResult.error.type = "TimeoutError"
    /\ retryResult.error.id = 3

\* C24: the wait after failed attempt a is min(baseDelay *
\* backoffMultiplier^(a-1), maxDelay) without jitter and, in whole
\* milliseconds, between half of that and that with jitter; it never exceeds
\* maxDelay, and there is no wait after the final attempt.
C24_Backoff ==
    [][RejectStep =>
         /\ retryPc' = "waiting" =>
              LET full == Min(baseDelay * Pow(backoffMultiplier, attempt' - 1), maxDelay)
              IN  /\ ~retryConfig.jitter => delayMs' = full
                  /\ retryConfig.jitter => full \div 2 <= delayMs' /\ delayMs' <= full
                  /\ delayMs' <= maxDelay
         /\ attempt' >= retryConfig.maxAttempts => retryPc' = "thrown"]_allVars

\* C24 witness: without jitter the wait after the third failed attempt is the
\* cap, below baseDelay * backoffMultiplier^2
C24_WaitCapped ==
    /\ retryPc = "waiting" /\ ~retryConfig.jitter /\ attempt = 3
    /\ delayMs = maxDelay
    /\ baseDelay * Pow(backoffMultiplier, 2) > maxDelay

\* ------------------------------------------------------ ResilienceManager
\* C25: while the breaker is Open and its timeout has not elapsed, a call to
\* ResilienceManager.execute invokes the function zero times; an admitted call
\* records nothing in the breaker while its retry sequence runs and exactly one
\* success or one failure when the sequence has ended.
C25_BreakerAroundRetry ==
    [][/\ managerPc = "idle" /\ managerPc' # "idle"
            /\ state = "OPEN" /\ now - lastFailureTime < timeout
          => managerPc' = "rejected" /\ invocations' = invocations /\ retryPc' = "idle"
       /\ managerPc = "rejected" => invocations' = invocations /\ retryPc' = "idle"
       /\ retryPc \in {"calling", "waiting"} /\ bret'.op # "reset"
          => UNCHANGED <<state, failures, failureCount, successCount, lastFailureTime,
                         inFlightOps>>
       /\ inFlightOps' < inFlightOps
          => /\ inFlightOps = 1
             /\ retryPc \in {"returned", "thrown"}
             /\ retryPc = "thrown"
                  => failureCount' = failureCount + 1 /\ lastFailureTime' = now
             /\ retryPc = "returned" => failureCount' = 0 /\ failures' = failures
       /\ managerPc = "awaiting" /\ managerPc' = "idle" => inFlightOps = 0]_allVars

\* C25 witness: an admitted call made three attempts and the breaker recorded
\* one failure
C25_ThreeAttemptsOneFailure ==
    /\ managerPc = "awaiting" /\ bret.op = "failure"
    /\ invocations = 3
    /\ failureCount = 1 /\ Len(failures) = 1

\* ---------------------------------------------------------- TarkovService
\* the fetch operation that was running settles in this step
FetchSettles == servicePc # "idle" /\ servicePc' = "idle"

\* executeQuery throws in this step: the live fetch has failed
LiveFetchFails ==
    /\ servicePc \in {"requesting", "failing"}
    /\ servicePc' \in {"reading", "idle"}

\* C26: the live fetch goes through the resilience manager: no request is
\* issued while its breaker is Open, and a failed live fetch is recorded by
\* that breaker.
C26_LiveFetchThroughBreaker ==
    [][/\ serviceRequests' > serviceRequests =>
            state # "OPEN" \/ now - lastFailureTime >= timeout
       /\ LiveFetchFails =>
            /\ failureCount' = failureCount + 1
            /\ lastFailureTime' = now
            /\ Len(failures') > 0]_allVars

\* C27: when every request of the live fetch has failed and persistent storage
\* holds a readable snapshot V with elements for the key, the fetch resolves
\* with V and does not throw.
C27_FallbackToSnapshot ==
    [][/\ FetchSettles
       /\ servicePc \in {"requesting", "reading"}
       /\ serviceRequests > 0
       /\ usableSnapshot(storage[KeyOf(serviceOp)])
       /\ ~ReadSettles(FALSE)
       => serviceResult' = [kind |-> "value", val |-> storage[KeyOf(serviceOp)],
                            origin |-> "snapshot"]]_allVars

\* C28: when the live fetch has failed and no snapshot is available, because
\* storage holds none or because the read fails, the fetch rejects with the
\* error of the live fetch; a failed read never replaces that error.
C28_OriginalErrorWithoutSnapshot ==
    [][/\ FetchSettles /\ serviceResult'.kind = "error" =>
            /\ serviceResult'.error.id = serviceRequests
            /\ serviceResult'.error.type \in
                 {"NetworkError", "TimeoutError", "GraphQLApiError", "ParseError", "Error"}
            /\ servicePc = "reading" => serviceResult'.error = serviceLastError
       /\ FetchSettles /\ servicePc = "reading"
            /\ (storage[KeyOf(serviceOp)] = NoSnapshot \/ ReadSettles(FALSE))
          => serviceResult' = [kind |-> "error", error |-> serviceLastError]]_allVars

\* C28 witness: the fetch rejected with the timeout error of its last request
\* although storage holds a snapshot, the read of which failed
C28_ReadFailureAbsorbed ==
    /\ servicePc = "idle" /\ serviceOp = "fetchTraders"
    /\ serviceResult.kind = "error"
    /\ serviceResult.error.type = "TimeoutError"
    /\ serviceResult.error.id = 2 /\ serviceRequests = 2
    /\ storage[KeyOf(serviceOp)] \in Values

\* C29: when the live fetch succeeds, the fetch resolves with the fresh result
\* and the cache holds the fresh result for the key, whether or not the write
\* to persistent storage succeeded.
C29_WriteFailureHarmless ==
    [][servicePc = "storing" /\ servicePc' = "idle" =>
         /\ serviceResult' = [kind |-> "value", val |-> serviceData, origin |-> "live"]
         /\ \E e \in Range(cache') :
              e.key = KeyOf(serviceOp) /\ e.data = serviceData /\ e.timestamp = now]_allVars

\* C30: a parse error or a GraphQL error is not retried and propagates at once
\* to the caller of the fetch operation.
C30_ParseAndQueryErrorsPropagate ==
    [][/\ servicePc = "requesting" /\ servicePc' # "requesting"
            /\ serviceLastError'.type \in {"GraphQLApiError", "ParseError"}
          => servicePc' # "waiting"
       /\ servicePc = "reading" /\ serviceLastError.type \in {"GraphQLApiError", "ParseError"}
          => /\ serviceRequests' = serviceRequests
             /\ FetchSettles => serviceResult' = [kind |-> "error", error |-> serviceLastError]]_allVars

\* ------------------------------------------------------ ResilienceManager
\* getMetrics returned in this step
GetMetricsStep ==
    /\ health' # health
    /\ UNCHANGED <<metrics, managerPc, startTime, breakerVars, retryVars, now>>

\* C31: the healthStatus that getMetrics reports is unhealthy iff the breaker is
\* Open; otherwise degraded iff the success rate (100% without requests) is
\* below 90% or the average response time is above 10 s; otherwise healthy.
C31_HealthStatus ==
    [][GetMetricsStep =>
         LET rateLow == /\ metrics.totalRequests > 0
                        /\ metrics.successfulRequests * 100 < 90 * metrics.totalRequests
             slow == metrics.averageResponseTime.num >
                        10000 * Pow(10, metrics.averageResponseTime.exp)
         IN  /\ health' = "unhealthy" <=> state = "OPEN"
             /\ state # "OPEN" => (health' = "degraded" <=> rateLow \/ slow)
             /\ health' \in {"unhealthy", "degraded", "healthy"}]_allVars

\* C31 witness: getMetrics reported degraded for a manager whose requests all
\* succeeded, on the response time alone
C31_DegradedByLatency ==
    /\ health = "degraded"
    /\ state # "OPEN"
    /\ metrics.totalRequests > 0
    /\ metrics.successfulRequests = metrics.totalRequests
    /\ metrics.averageResponseTime.num > 10000 * Pow(10, metrics.averageResponseTime.exp)

\* ----------------------------------------------------- hashPlayerSettings
\* the two settings list the same module levels and the same quest ids,
\* whatever the order
SameParameters(a, b) ==
    /\ Range(a.hideoutModuleLevels) = Range(b.hideoutModuleLevels)
    /\ \A id \in QuestIdStrings :
         Cardinality({i \in 1..Len(a.completedQuestIds) : a.completedQuestIds[i] = id})
           = Cardinality({i \in 1..Len(b.completedQuestIds) : b.completedQuestIds[i] = id})

\* C32: two settings with the same module levels and the same completed quest
\* ids get the same key whatever the order they are listed in, and two settings
\* that differ in them get different keys.
C32_KeysNormalizedAndDistinct ==
    \A i, j \in 1..Len(hashed) :
        hashed[i].settings.given /\ hashed[j].settings.given =>
            (hashed[i].key = hashed[j].key
                <=> SameParameters(hashed[i].settings, hashed[j].settings))

\* ----------------------------------------------------------- executeQuery
\* a request of executeQuery fails in this step
RequestFailsStep ==
    /\ servicePc = "requesting"
    /\ servicePc' \in {"waiting", "reading", "idle"}

\* the error of the request that fails in this step: lastError, or what the
\* fetch operation caught or rejected with
FailedWith ==
    IF servicePc' = "idle" THEN serviceResult'.error ELSE serviceLastError'

\* C33: executeQuery issues at most retryAttempts requests per call; it retries
\* only after a timeout, a network error without status code or a status of
\* 500 and above, and only before the last attempt, waiting retryDelay times
\* the number of the attempt; any other failure ends the call at once, and the
\* error thrown is the one of the last request.
C33_ExecuteQueryRetries ==
    [][/\ serviceRequests' > serviceRequests =>
            /\ serviceRequests' = serviceRequests + 1 \/ serviceRequests' = 1
            /\ serviceRequests' <= serviceConfig'.retryAttempts
       /\ RequestFailsStep =>
            LET error == FailedWith
                retried ==
                    \/ error.type = "TimeoutError"
                    \/ error.type = "NetworkError" /\ error.statusCode = 0
                    \/ error.type = "NetworkError" /\ error.statusCode >= 500
            IN  /\ error.id = serviceRequests
                /\ error.type \in {"TimeoutError", "NetworkError", "GraphQLApiError",
                                   "ParseError"}
                /\ servicePc' = "waiting"
                     <=> retried /\ serviceAttempt < serviceConfig.retryAttempts
                /\ servicePc' = "waiting" =>
                     /\ serviceDelayMs' = retryDelay * serviceAttempt
                     /\ serviceAttempt = serviceRequests
                /\ serviceRequests' = serviceRequests
       /\ servicePc = "waiting" /\ servicePc' # "waiting" =>
            /\ servicePc' = "requesting"
            /\ serviceRequests' = serviceRequests + 1
            /\ serviceAttempt' = serviceAttempt + 1]_allVars

\* C33 witness: with retryAttempts 3, getAllQuests rejected with the error of
\* its third request, a status 500
C33_ExhaustedAfterThreeRequests ==
    /\ servicePc = "idle" /\ serviceOp = "getAllQuests"
    /\ serviceConfig.retryAttempts = 3
    /\ serviceRequests = 3
    /\ serviceResult.kind = "error"
    /\ serviceResult.error = [type |-> "NetworkError", statusCode |-> 500, id |-> 3]

\* ------------------------------------------------------------ TarkovCache
\* C34: the completion of a fetch removes only the pending marker that this
\* fetch registered: a marker that another fetch registered for the key in the
\* meantime is still there after the older fetch settles.
C34_SettleKeepsNewerMarker ==
    [][\A f \in FetchIds :
         /\ fetches[f] # NoFetch
         /\ fetches'[f] = NoFetch
         /\ pendingRequests[fetches[f].key] # NoPending
         /\ pendingRequests[fetches[f].key].fid # f
         => pendingRequests'[fetches[f].key] = pendingRequests[fetches[f].key]]_allVars

\* C35: delete, clear and destroy are not undone by a fetch in flight: when a
\* fetch that was in flight under a delete, clear or destroy of its key settles
\* successfully, with no get or set of the key since, the cache holds no entry
\* for the key.
C35_DeleteNotUndone ==
    [][\A f \in dropped :
         fetches'[f] = NoFetch /\ ret'.op = "settle" /\ ret'.kind = "ok"
         => ~MapHas(cache', fetches[f].key)]_allVars

\* what a step adds to the counters hits, misses and deduplicatedRequests
StatsDelta ==
    <<stats'.hits - stats.hits, stats'.misses - stats.misses,
      stats'.deduplicatedRequests - stats.deduplicatedRequests>>

\* C36: a get without forceRefresh adds one to exactly one of hits, misses and
\* deduplicatedRequests: to hits iff it returned a valid entry, to
\* deduplicatedRequests iff it joined a pending fetch, to misses iff it invoked
\* the producer; a get with forceRefresh changes no counter, and no counter
\* ever decreases.
C36_StatsAccounting ==
    [][/\ \A i \in 1..3 : StatsDelta[i] >= 0
       /\ ret'.op = "get" /\ ret'.kind \in {"forceFetch", "forceThrow"} =>
            StatsDelta = <<0, 0, 0>>
       /\ ret'.op = "get" /\ ret'.kind \notin {"forceFetch", "forceThrow"} =>
            LET k == ret'.key
                valid == getCachedData(cache, k, now) # 0
                joins == enableDeduplication /\ pendingRequests[k] # NoPending
                invoked == ret'.kind \in {"fetch", "throw"}
            IN  /\ StatsDelta \in {<<1, 0, 0>>, <<0, 1, 0>>, <<0, 0, 1>>}
                /\ StatsDelta = <<1, 0, 0>> <=> valid
                /\ StatsDelta = <<1, 0, 0>> => ret'.kind = "hit"
                /\ StatsDelta = <<0, 0, 1>> <=> ~valid /\ joins
                /\ StatsDelta = <<0, 0, 1>> => ret'.kind = "join"
                /\ StatsDelta = <<0, 1, 0>> <=> invoked]_allVars

\* C36 witness: after a miss, a joined get and a hit, each counter is 1
C36_OneOfEach ==
    /\ stats = [hits |-> 1, misses |-> 1, deduplicatedRequests |-> 1]
    /\ ret.op = "get" /\ ret.kind = "hit"

\* --------------------------------------------------------- CircuitBreaker
\* C37: a call rejected by the Open breaker leaves the breaker as it was: no
\* failure is recorded, failureCount and lastFailureTime keep their values, and
\* so a call at lastFailureTime + timeout is admitted however many calls were
\* rejected before it.
C37_RejectionLeavesBreaker ==
    [][/\ bret'.op = "rejected" =>
            /\ state = "OPEN"
            /\ UNCHANGED <<state, failureCount, successCount, lastFailureTime,
                           failures, inFlightOps>>
       /\ /\ state = "OPEN"
          /\ now - lastFailureTime >= timeout
          /\ bret'.op \in {"admitted", "rejected"}
          /\ bret' # bret
          => bret'.op = "admitted" /\ state' = "HALF_OPEN"]_allVars

\* C37 witness: a call was rejected half a tick after the last failure, and the
\* failure is all the breaker recorded
C37_RejectedAfterTheFailure ==
    /\ bret = BRet("rejected", "OPEN")
    /\ state = "OPEN"
    /\ now = lastFailureTime + BreakerTickMs \div 2
    /\ failures # <<>> /\ failures[Len(failures)] = lastFailureTime

\* C38: once every wrapped operation succeeds, with time advancing and calls
\* being issued, the breaker reaches Closed and stays Closed, whatever state it
\* was in and whatever operations were in flight.
C38_RecoversAndStaysClosed ==
    [](recovering => <>[](state = "CLOSED"))

\* C38 witness: with the operations succeeding, the breaker closed on a success
\* of a Half-Open call; the failures that had opened it are still recorded
C38_ClosedByProbes ==
    /\ recovering
    /\ state = "CLOSED"
    /\ bret = BRet("success", "HALF_OPEN")
    /\ Len(failures) >= failureThreshold

\* ------------------------------------------------------ ResilienceManager
\* C39: in every reachable state of the manager, whatever the interleaving of
\* execute calls, their completions and reset(), successfulRequests +
\* failedRequests is at most totalRequests, and equal to it while no execute
\* call is in flight.
C39_MetricsConsistent ==
    /\ metrics.successfulRequests + metrics.failedRequests <= metrics.totalRequests
    /\ managerPc = "idle" =>
         metrics.successfulRequests + metrics.failedRequests = metrics.totalRequests

\* ---------------------------------------------------------- TarkovService
\* C40: when a fetch fails live and is answered from the snapshot of persistent
\* storage, the snapshot is not stored as a cache entry: the entries of the key
\* are what they were, and without a valid entry from before the next call
\* without forceRefresh fetches live again.
C40_SnapshotNotCached ==
    [][/\ FetchSettles
       /\ serviceResult'.kind = "value"
       /\ serviceResult'.origin = "snapshot"
       => /\ EntriesOf(cache', KeyOf(serviceOp)) = EntriesOf(cache, KeyOf(serviceOp))
          /\ getCachedData(cache, KeyOf(serviceOp), now) = 0
               => getCachedData(cache', KeyOf(serviceOp), now) = 0]_allVars
====
